---- MODULE Spec2Model ----
(***************************************************************************)
(* validate-test-structure.py: analyze_test_file() reads one Java test     *)
(* file as text, runs eight regular-expression recognizers over it and     *)
(* prints a sectioned report.  The text is a sequence of one-character     *)
(* strings; the recognizers are the source's patterns, matched with the    *)
(* backtracking semantics of Python's re module.                           *)
(***************************************************************************)
EXTENDS Integers, Sequences, FiniteSets

VARIABLES
    profile,            \* which family of file bodies this run draws from
    fs_kind,            \* the path on disk: "missing", "file" or "directory"
    fs_body,            \* the fragments of the file when fs_kind = "file"
    pc,                 \* position inside analyze_test_file
    content,            \* line 18
    test_methods,       \* line 21
    nested_classes,     \* line 24
    helper_methods,     \* line 27
    imports,            \* line 30
    assertions,         \* line 33
    timeouts,           \* line 36
    concurrent_patterns,\* line 39
    mockito_usage,      \* line 42
    output              \* what print() has written so far, one entry per call

vars == <<profile, fs_kind, fs_body, pc, content, test_methods, nested_classes,
          helper_methods, imports, assertions, timeouts, concurrent_patterns,
          mockito_usage, output>>

(***************************************************************************)
(* Characters                                                              *)
(***************************************************************************)
UpperSeq == <<"A", "B", "C", "D", "E", "F", "G", "H", "I", "J", "K", "L", "M",
              "N", "O", "P", "Q", "R", "S", "T", "U", "V", "W", "X", "Y", "Z">>

LowerSeq == <<"a", "b", "c", "d", "e", "f", "g", "h", "i", "j", "k", "l", "m",
              "n", "o", "p", "q", "r", "s", "t", "u", "v", "w", "x", "y", "z">>

DigitChars == {"0", "1", "2", "3", "4", "5", "6", "7", "8", "9"}

Range(s) == {s[k] : k \in DOMAIN s}

\* \w of a str pattern, restricted to ASCII
WordChars == Range(UpperSeq) \cup Range(LowerSeq) \cup DigitChars \cup {"_"}

\* \s of a str pattern, restricted to ASCII
SpaceChars == {" ", "\n", "\t", "\r"}

LowerOf == [c \in Range(UpperSeq) |-> LowerSeq[CHOOSE k \in DOMAIN UpperSeq : UpperSeq[k] = c]]

\* str.lower() of one character, and the case folding of re.IGNORECASE
LowerChar(c) == IF c \in DOMAIN LowerOf THEN LowerOf[c] ELSE c

\* str.lower()
LowerStr(s) == [k \in DOMAIN s |-> LowerChar(s[k])]

(***************************************************************************)
(* Regular expressions: a pattern is a sequence of nodes                   *)
(***************************************************************************)
Chars(s) == <<[t |-> "str", s |-> s]>>
Lit(c) == [t |-> "str", s |-> <<c>>]
Word == [t |-> "w"]
Space == [t |-> "s"]
Dot == [t |-> "dot"]
NotChar(c) == [t |-> "not", c |-> c]
\* c+, c* and c*? of one character class c
Many(c) == [t |-> "rep", c |-> c, min |-> 1, lazy |-> FALSE]
Any(c) == [t |-> "rep", c |-> c, min |-> 0, lazy |-> FALSE]
LazyAny(c) == [t |-> "rep", c |-> c, min |-> 0, lazy |-> TRUE]
\* (?:sub)*
Star(sub) == [t |-> "star", sub |-> sub]
Alt(alts) == [t |-> "alt", alts |-> alts]
Group(sub) == <<[t |-> "open"]>> \o sub \o <<[t |-> "close"]>>

Flags(ignorecase, dotall) == [ignorecase |-> ignorecase, dotall |-> dotall]

\* the subject of a search: the text, the text as literals are compared with
\* it (case-folded under IGNORECASE), and the flags
Subject(txt, fl) ==
    [raw |-> txt,
     cmp |-> IF fl.ignorecase THEN LowerStr(txt) ELSE txt,
     ignorecase |-> fl.ignorecase,
     dotall |-> fl.dotall]

NoMatch == [ok |-> FALSE, end |-> 0, caps |-> <<>>]

NoCaps == [open |-> 0, done |-> <<>>]

SetMin(S) == CHOOSE m \in S : \A k \in S : m <= k

\* one character against a character class
Accepts(h, c, x) ==
    CASE h.t = "w"   -> c \in WordChars
      [] h.t = "s"   -> c \in SpaceChars
      [] h.t = "dot" -> x.dotall \/ c # "\n"
      [] h.t = "not" -> c # h.c

IsClass(h) == h.t \in {"w", "s", "dot", "not"}

\* a literal string at position i
LiteralAt(x, s, i) ==
    /\ i + Len(s) - 1 <= Len(x.raw)
    /\ SubSeq(x.cmp, i, i + Len(s) - 1) = (IF x.ignorecase THEN LowerStr(s) ELSE s)

\* how many characters from position i on the class h accepts in a row
RunLength(x, h, i) ==
    LET n == Len(x.raw)
        stop == CHOOSE q \in i..(n + 1) :
                    /\ q = n + 1 \/ ~Accepts(h, x.raw[q], x)
                    /\ \A j \in i..(q - 1) : Accepts(h, x.raw[j], x)
    IN  stop - i

\* the first match, in the engine's priority order, of the node sequence rs
\* from position i: a greedy repetition takes the most repetitions the rest of
\* the pattern allows, a lazy one the fewest, a repeated group another round
\* before the rest, alternation the leftmost branch the rest allows
RECURSIVE MatchAt(_, _, _, _)
MatchAt(x, rs, i, cs) ==
    IF Len(rs) = 0
    THEN [ok |-> TRUE, end |-> i, caps |-> cs.done]
    ELSE LET h == Head(rs)
             rest == Tail(rs)
         IN  CASE h.t = "str" ->
                    IF LiteralAt(x, h.s, i)
                    THEN MatchAt(x, rest, i + Len(h.s), cs)
                    ELSE NoMatch
               [] IsClass(h) ->
                    IF i <= Len(x.raw) /\ Accepts(h, x.raw[i], x)
                    THEN MatchAt(x, rest, i + 1, cs)
                    ELSE NoMatch
               [] h.t = "open" ->
                    MatchAt(x, rest, i, [cs EXCEPT !.open = i])
               [] h.t = "close" ->
                    MatchAt(x, rest, i,
                            [cs EXCEPT !.done = Append(@, SubSeq(x.raw, cs.open, i - 1))])
               [] h.t = "rep" ->
                    LET tries == {[k |-> k, m |-> MatchAt(x, rest, i + k, cs)] :
                                     k \in h.min..RunLength(x, h.c, i)}
                        fits == {t \in tries : t.m.ok}
                    IN  IF fits = {}
                        THEN NoMatch
                        ELSE IF h.lazy
                        THEN (CHOOSE t \in fits : \A u \in fits : t.k <= u.k).m
                        ELSE (CHOOSE t \in fits : \A u \in fits : t.k >= u.k).m
               [] h.t = "star" ->
                    LET more == MatchAt(x, h.sub \o rs, i, cs)
                    IN  IF more.ok THEN more ELSE MatchAt(x, rest, i, cs)
               [] h.t = "alt" ->
                    IF Len(h.alts) = 0
                    THEN NoMatch
                    ELSE LET first == MatchAt(x, Head(h.alts) \o rest, i, cs)
                         IN  IF first.ok
                             THEN first
                             ELSE MatchAt(x, <<Alt(Tail(h.alts))>> \o rest, i, cs)

\* what re.findall returns for one match: the group when the pattern has one
\* group, the tuple of groups when it has several, the matched text otherwise
MatchItem(x, p, m) ==
    CASE Len(m.caps) = 0 -> SubSeq(x.raw, p, m.end - 1)
      [] Len(m.caps) = 1 -> m.caps[1]
      [] OTHER -> m.caps

\* the scan of re.findall from position p on: hits are the positions at which
\* the pattern matches; the next match is the first hit at or after p, and the
\* scan resumes where that match ended
RECURSIVE Collect(_, _, _, _)
Collect(x, rs, hits, p) ==
    LET ahead == {q \in hits : q >= p}
    IN  IF ahead = {}
        THEN <<>>
        ELSE LET q == SetMin(ahead)
                 m == MatchAt(x, rs, q, NoCaps)
             IN  <<MatchItem(x, q, m)>>
                 \o Collect(x, rs, hits, IF m.end > q THEN m.end ELSE q + 1)

\* re.findall(pattern, txt, flags)
FindAll(rs, txt, fl) ==
    LET x == Subject(txt, fl)
        hits == {q \in 1..Len(txt) : MatchAt(x, rs, q, NoCaps).ok}
    IN  Collect(x, rs, hits, 1)

(***************************************************************************)
(* The eight patterns of analyze_test_file                                 *)
(***************************************************************************)
\* @Test\s+(?:@\w+\(.*?\)\s+)*(?:@\w+\s+)*\w+\s+void\s+(\w+)   MULTILINE | DOTALL
TestMethodPattern ==
    Chars(<<"@", "T", "e", "s", "t">>)
    \o <<Many(Space),
         Star(<<Lit("@"), Many(Word), Lit("("), LazyAny(Dot), Lit(")"), Many(Space)>>),
         Star(<<Lit("@"), Many(Word), Many(Space)>>),
         Many(Word), Many(Space)>>
    \o Chars(<<"v", "o", "i", "d">>)
    \o <<Many(Space)>>
    \o Group(<<Many(Word)>>)

TestMethodFlags == Flags(FALSE, TRUE)

\* @Nested\s+@DisplayName\("([^"]+)"\)\s+class\s+(\w+)
NestedClassPattern ==
    Chars(<<"@", "N", "e", "s", "t", "e", "d">>)
    \o <<Many(Space)>>
    \o Chars(<<"@", "D", "i", "s", "p", "l", "a", "y", "N", "a", "m", "e", "(", "\"">>)
    \o Group(<<Many(NotChar("\""))>>)
    \o Chars(<<"\"", ")">>)
    \o <<Many(Space)>>
    \o Chars(<<"c", "l", "a", "s", "s">>)
    \o <<Many(Space)>>
    \o Group(<<Many(Word)>>)

\* private\s+\w+.*?\s+(\w+)\([^)]*\)\s*\{
HelperMethodPattern ==
    Chars(<<"p", "r", "i", "v", "a", "t", "e">>)
    \o <<Many(Space), Many(Word), LazyAny(Dot), Many(Space)>>
    \o Group(<<Many(Word)>>)
    \o <<Lit("("), Any(NotChar(")")), Lit(")"), Any(Space), Lit("{")>>

\* import\s+([^;]+);
ImportPattern ==
    Chars(<<"i", "m", "p", "o", "r", "t">>)
    \o <<Many(Space)>>
    \o Group(<<Many(NotChar(";"))>>)
    \o <<Lit(";")>>

\* assert\w+\(
AssertionPattern ==
    Chars(<<"a", "s", "s", "e", "r", "t">>) \o <<Many(Word), Lit("(")>>

\* @Timeout
TimeoutPattern == Chars(<<"@", "T", "i", "m", "e", "o", "u", "t">>)

\* CompletableFuture|ExecutorService|CountDownLatch|virtual.*thread   IGNORECASE
ConcurrencyPattern ==
    <<Alt(<<Chars(<<"C", "o", "m", "p", "l", "e", "t", "a", "b", "l", "e",
                    "F", "u", "t", "u", "r", "e">>),
            Chars(<<"E", "x", "e", "c", "u", "t", "o", "r",
                    "S", "e", "r", "v", "i", "c", "e">>),
            Chars(<<"C", "o", "u", "n", "t", "D", "o", "w", "n",
                    "L", "a", "t", "c", "h">>),
            Chars(<<"v", "i", "r", "t", "u", "a", "l">>)
                \o <<Any(Dot)>>
                \o Chars(<<"t", "h", "r", "e", "a", "d">>)>>)>>

ConcurrencyFlags == Flags(TRUE, FALSE)

\* @ExtendWith\(MockitoExtension\.class\)
MockitoPattern ==
    Chars(<<"@", "E", "x", "t", "e", "n", "d", "W", "i", "t", "h", "(",
            "M", "o", "c", "k", "i", "t", "o", "E", "x", "t", "e", "n", "s", "i", "o", "n",
            ".", "c", "l", "a", "s", "s", ")">>)

PlainFlags == Flags(FALSE, FALSE)

(***************************************************************************)
(* The file at test_file_path: a body is a sequence of named source        *)
(* fragments, the text their concatenation                                 *)
(***************************************************************************)
\* 'import java.util.List;\n'
ImportList ==
    <<"i", "m", "p", "o", "r", "t", " ", "j", "a", "v", "a", ".", "u", "t", "i", "l", ".", "L", "i", "s", "t", ";", "\n">>

\* 'import java.util.concurrent.CountDownLatch;\n'
ImportLatch ==
    <<"i", "m", "p", "o", "r", "t", " ", "j", "a", "v", "a", ".", "u", "t", "i", "l", ".", "c", "o", "n", "c", "u", "r", "r", "e", "n", "t", ".", "C", "o", "u", "n", "t", "D", "o", "w", "n", "L", "a", "t", "c", "h", ";", "\n">>

\* '@Test public void findsA() {\n'
PublicTestA ==
    <<"@", "T", "e", "s", "t", " ", "p", "u", "b", "l", "i", "c", " ", "v", "o", "i", "d", " ", "f", "i", "n", "d", "s", "A", "(", ")", " ", "{", "\n">>

\* '@Test\npublic void findsB() {\n'
PublicTestB ==
    <<"@", "T", "e", "s", "t", "\n", "p", "u", "b", "l", "i", "c", " ", "v", "o", "i", "d", " ", "f", "i", "n", "d", "s", "B", "(", ")", " ", "{", "\n">>

\* '@Test @Timeout(5) public void slow() {\n'
TimedTest ==
    <<"@", "T", "e", "s", "t", " ", "@", "T", "i", "m", "e", "o", "u", "t", "(", "5", ")", " ", "p", "u", "b", "l", "i", "c", " ", "v", "o", "i", "d", " ", "s", "l", "o", "w", "(", ")", " ", "{", "\n">>

\* '@Test void findsC() {\n'
PlainTestC ==
    <<"@", "T", "e", "s", "t", " ", "v", "o", "i", "d", " ", "f", "i", "n", "d", "s", "C", "(", ")", " ", "{", "\n">>

\* '@Nested @DisplayName("Edge cases") class G {\n'
NestedG ==
    <<"@", "N", "e", "s", "t", "e", "d", " ", "@", "D", "i", "s", "p", "l", "a", "y", "N", "a", "m", "e", "(", "\"", "E", "d", "g", "e", " ", "c", "a", "s", "e", "s", "\"", ")", " ", "c", "l", "a", "s", "s", " ", "G", " ", "{", "\n">>

\* '@Nested\n@DisplayName("Empty")\nclass H {\n'
NestedH ==
    <<"@", "N", "e", "s", "t", "e", "d", "\n", "@", "D", "i", "s", "p", "l", "a", "y", "N", "a", "m", "e", "(", "\"", "E", "m", "p", "t", "y", "\"", ")", "\n", "c", "l", "a", "s", "s", " ", "H", " ", "{", "\n">>

\* '@Nested @DisplayName("The \\"same\\" file") class Q {\n'
NestedQ ==
    <<"@", "N", "e", "s", "t", "e", "d", " ", "@", "D", "i", "s", "p", "l", "a", "y", "N", "a", "m", "e", "(", "\"", "T", "h", "e", " ", "\\", "\"", "s", "a", "m", "e", "\\", "\"", " ", "f", "i", "l", "e", "\"", ")", " ", "c", "l", "a", "s", "s", " ", "Q", " ", "{", "\n">>

\* 'private Path mockFile(int n) {\n'
HelperMock ==
    <<"p", "r", "i", "v", "a", "t", "e", " ", "P", "a", "t", "h", " ", "m", "o", "c", "k", "F", "i", "l", "e", "(", "i", "n", "t", " ", "n", ")", " ", "{", "\n">>

\* 'private static Path CreateFile() {\n'
HelperCreate ==
    <<"p", "r", "i", "v", "a", "t", "e", " ", "s", "t", "a", "t", "i", "c", " ", "P", "a", "t", "h", " ", "C", "r", "e", "a", "t", "e", "F", "i", "l", "e", "(", ")", " ", "{", "\n">>

\* 'private int latestCount() {\n'
HelperLatest ==
    <<"p", "r", "i", "v", "a", "t", "e", " ", "i", "n", "t", " ", "l", "a", "t", "e", "s", "t", "C", "o", "u", "n", "t", "(", ")", " ", "{", "\n">>

\* 'private void run() {\n'
HelperRun ==
    <<"p", "r", "i", "v", "a", "t", "e", " ", "v", "o", "i", "d", " ", "r", "u", "n", "(", ")", " ", "{", "\n">>

\* 'assertEquals(1, n);\n'
AssertLine ==
    <<"a", "s", "s", "e", "r", "t", "E", "q", "u", "a", "l", "s", "(", "1", ",", " ", "n", ")", ";", "\n">>

\* '@ExtendWith(MockitoExtension.class)\n'
MockitoLine ==
    <<"@", "E", "x", "t", "e", "n", "d", "W", "i", "t", "h", "(", "M", "o", "c", "k", "i", "t", "o", "E", "x", "t", "e", "n", "s", "i", "o", "n", ".", "c", "l", "a", "s", "s", ")", "\n">>

\* '// on a virtual thread: '
VirtualInline ==
    <<"/", "/", " ", "o", "n", " ", "a", " ", "v", "i", "r", "t", "u", "a", "l", " ", "t", "h", "r", "e", "a", "d", ":", " ">>

\* 'new CountDownLatch(1); '
LatchInline ==
    <<"n", "e", "w", " ", "C", "o", "u", "n", "t", "D", "o", "w", "n", "L", "a", "t", "c", "h", "(", "1", ")", ";", " ">>

\* 'thread.join();'
ThreadInline ==
    <<"t", "h", "r", "e", "a", "d", ".", "j", "o", "i", "n", "(", ")", ";">>

\* '\n'
Newline ==
    <<"\n">>

\* 'AssertThat(x); @test Private IMPORT @timeout\n'
NearMiss ==
    <<"A", "s", "s", "e", "r", "t", "T", "h", "a", "t", "(", "x", ")", ";", " ", "@", "t", "e", "s", "t", " ", "P", "r", "i", "v", "a", "t", "e", " ", "I", "M", "P", "O", "R", "T", " ", "@", "t", "i", "m", "e", "o", "u", "t", "\n">>

\* 'class Foo { void go() { } }\n'
PlainCode ==
    <<"c", "l", "a", "s", "s", " ", "F", "o", "o", " ", "{", " ", "v", "o", "i", "d", " ", "g", "o", "(", ")", " ", "{", " ", "}", " ", "}", "\n">>

\* '@ExtendWith(SpringExtension.class) Thread t;\n'
NearMock ==
    <<"@", "E", "x", "t", "e", "n", "d", "W", "i", "t", "h", "(", "S", "p", "r", "i", "n", "g", "E", "x", "t", "e", "n", "s", "i", "o", "n", ".", "c", "l", "a", "s", "s", ")", " ", "T", "h", "r", "e", "a", "d", " ", "t", ";", "\n">>

ChunkText(c) ==
    CASE c = "ImportList" -> ImportList
      [] c = "ImportLatch" -> ImportLatch
      [] c = "PublicTestA" -> PublicTestA
      [] c = "PublicTestB" -> PublicTestB
      [] c = "TimedTest" -> TimedTest
      [] c = "PlainTestC" -> PlainTestC
      [] c = "NestedG" -> NestedG
      [] c = "NestedH" -> NestedH
      [] c = "NestedQ" -> NestedQ
      [] c = "HelperMock" -> HelperMock
      [] c = "HelperCreate" -> HelperCreate
      [] c = "HelperLatest" -> HelperLatest
      [] c = "HelperRun" -> HelperRun
      [] c = "AssertLine" -> AssertLine
      [] c = "MockitoLine" -> MockitoLine
      [] c = "VirtualInline" -> VirtualInline
      [] c = "LatchInline" -> LatchInline
      [] c = "ThreadInline" -> ThreadInline
      [] c = "Newline" -> Newline
      [] c = "NearMiss" -> NearMiss
      [] c = "PlainCode" -> PlainCode
      [] c = "NearMock" -> NearMock

RECURSIVE Flatten(_)
Flatten(body) ==
    IF Len(body) = 0 THEN <<>> ELSE ChunkText(Head(body)) \o Flatten(Tail(body))

(***************************************************************************)
(* Families of file bodies: the first n fragments of a repeated pattern    *)
(***************************************************************************)
MaxPattern == 3

MaxChunks == 4

MaxMethods == 12

MaxHelpers == 8

Alphabet(pr) ==
    CASE pr = "mixed"       -> {"ImportLatch", "TimedTest", "NestedG", "HelperMock",
                                "MockitoLine", "AssertLine"}
      [] pr = "methods"     -> {"PublicTestA", "PublicTestB", "PlainTestC", "PlainCode"}
      [] pr = "helpers"     -> {"HelperMock", "HelperCreate", "HelperLatest", "HelperRun"}
      [] pr = "nested"      -> {"NestedG", "NestedH", "NestedQ", "PlainCode"}
      [] pr = "concurrency" -> {"ImportLatch", "ImportList", "VirtualInline",
                                "LatchInline", "ThreadInline", "Newline"}
      [] pr = "plain"       -> {"NearMiss", "PlainCode", "NearMock", "AssertLine"}

\* the longest body of a family, in fragments
Longest(pr) ==
    CASE pr = "methods" -> MaxMethods
      [] pr = "helpers" -> MaxHelpers
      [] OTHER -> MaxChunks

Patterns(pr) == UNION {[1..k -> Alphabet(pr)] : k \in 1..MaxPattern}

Repeated(p, n) == [k \in 1..n |-> p[((k - 1) % Len(p)) + 1]]

Bodies(pr) == {Repeated(p, n) : p \in Patterns(pr), n \in 0..Longest(pr)}

(***************************************************************************)
(* print(): one entry per call; text is the literal part of the f-string,  *)
(* n, s and s2 the values interpolated into it                             *)
(***************************************************************************)
Ln(text, n, s, s2) == [text |-> text, n |-> n, s |-> s, s2 |-> s2]

Fixed(text) == Ln(text, 0, <<>>, <<>>)

\* "=" * 60
Rule == Fixed("============================================================")

\* seq[:n]
Slice(seq, n) == SubSeq(seq, 1, IF Len(seq) < n THEN Len(seq) ELSE n)

\* sub in s
Contains(sub, s) ==
    \E k \in 1..(Len(s) - Len(sub) + 1) : SubSeq(s, k, k + Len(sub) - 1) = sub

(***************************************************************************)
(* analyze_test_file, lines 11-18: locate and read the file                *)
(***************************************************************************)
NotFoundLine == Fixed("Test file not found: {test_file_path}")

\* faulty variant: the return after the message is missing
NotFoundFallsThrough ==
    /\ pc = "start"
    /\ fs_kind = "missing"
    /\ output' = Append(output, NotFoundLine)
    /\ pc' = "extract"
    /\ UNCHANGED <<profile, fs_kind, fs_body, content, test_methods, nested_classes,
                   helper_methods, imports, assertions, timeouts,
                   concurrent_patterns, mockito_usage>>

\* os.path.exists(test_file_path) is false: one message, return
NotFound ==
    /\ pc = "start"
    /\ fs_kind = "missing"
    /\ output' = Append(output, NotFoundLine)
    /\ pc' = "done"
    /\ UNCHANGED <<profile, fs_kind, fs_body, content, test_methods, nested_classes,
                   helper_methods, imports, assertions, timeouts,
                   concurrent_patterns, mockito_usage>>

Found ==
    /\ pc = "start"
    /\ fs_kind # "missing"
    /\ pc' = "open"
    /\ UNCHANGED <<profile, fs_kind, fs_body, content, test_methods, nested_classes,
                   helper_methods, imports, assertions, timeouts,
                   concurrent_patterns, mockito_usage, output>>

\* open() and file.read()
ReadFile ==
    /\ pc = "open"
    /\ fs_kind = "file"
    /\ content' = Flatten(fs_body)
    /\ pc' = "extract"
    /\ UNCHANGED <<profile, fs_kind, fs_body, test_methods, nested_classes,
                   helper_methods, imports, assertions, timeouts,
                   concurrent_patterns, mockito_usage, output>>

\* open() of a directory raises IsADirectoryError, which nothing catches
OpenRaises ==
    /\ pc = "open"
    /\ fs_kind = "directory"
    /\ pc' = "raised"
    /\ UNCHANGED <<profile, fs_kind, fs_body, content, test_methods, nested_classes,
                   helper_methods, imports, assertions, timeouts,
                   concurrent_patterns, mockito_usage, output>>

(***************************************************************************)
(* lines 20-42: the recognizers                                            *)
(***************************************************************************)
FindTestMethods(txt) == FindAll(TestMethodPattern, txt, TestMethodFlags)

FindNestedClasses(txt) == FindAll(NestedClassPattern, txt, PlainFlags)

FindHelperMethods(txt) == FindAll(HelperMethodPattern, txt, PlainFlags)

FindImports(txt) == FindAll(ImportPattern, txt, PlainFlags)

CountAssertions(txt) == Len(FindAll(AssertionPattern, txt, PlainFlags))

CountTimeouts(txt) == Len(FindAll(TimeoutPattern, txt, PlainFlags))

CountConcurrentPatterns(txt) == Len(FindAll(ConcurrencyPattern, txt, ConcurrencyFlags))

CountMockitoUsage(txt) == Len(FindAll(MockitoPattern, txt, PlainFlags))

Extract ==
    /\ pc = "extract"
    /\ test_methods' = FindTestMethods(content)
    /\ nested_classes' = FindNestedClasses(content)
    /\ helper_methods' = FindHelperMethods(content)
    /\ imports' = FindImports(content)
    /\ assertions' = CountAssertions(content)
    /\ timeouts' = CountTimeouts(content)
    /\ concurrent_patterns' = CountConcurrentPatterns(content)
    /\ mockito_usage' = CountMockitoUsage(content)
    /\ pc' = "banner"
    /\ UNCHANGED <<profile, fs_kind, fs_body, content, output>>

(***************************************************************************)
(* lines 44-119: the report                                                *)
(***************************************************************************)
\* prints the lines and moves on; nothing else changes
Emit(at, lines, next) ==
    /\ pc = at
    /\ output' = output \o lines
    /\ pc' = next
    /\ UNCHANGED <<profile, fs_kind, fs_body, content, test_methods, nested_classes,
                   helper_methods, imports, assertions, timeouts,
                   concurrent_patterns, mockito_usage>>

BannerTitle == Fixed("CONCURRENTDUPLICATEFINDER TEST ANALYSIS")

BannerLines == <<Rule, BannerTitle, Rule>>

PrintBanner == Emit("banner", BannerLines, "structure")

StructureHeader == Fixed("\n[TEST STRUCTURE]:")

StructureLines ==
    <<StructureHeader,
      Ln("   * Total test methods: {}", Len(test_methods), <<>>, <<>>),
      Ln("   * Nested test classes: {}", Len(nested_classes), <<>>, <<>>),
      Ln("   * Helper methods: {}", Len(helper_methods), <<>>, <<>>),
      Ln("   * Test imports: {}", Len(imports), <<>>, <<>>)>>

PrintStructure == Emit("structure", StructureLines, "coverage")

CoverageHeader == Fixed("\n[TEST COVERAGE]:")

\* faulty variant: >= instead of >
MockitoWordFromZero == IF mockito_usage >= 0 THEN <<"Y", "e", "s">> ELSE <<"N", "o">>

\* 'Yes' if mockito_usage > 0 else 'No'
MockitoWord == IF mockito_usage > 0 THEN <<"Y", "e", "s">> ELSE <<"N", "o">>

CoverageLines ==
    <<CoverageHeader,
      Ln("   * Assertion statements: {}", assertions, <<>>, <<>>),
      Ln("   * Timeout constraints: {}", timeouts, <<>>, <<>>),
      Ln("   * Concurrency patterns: {}", concurrent_patterns, <<>>, <<>>),
      Ln("   * Mockito integration: {}", 0, MockitoWord, <<>>)>>

PrintCoverage == Emit("coverage", CoverageLines, "nested")

NestedHeader == Fixed("\n[NESTED TEST CLASSES]:")

\* for display_name, class_name in nested_classes: "   * {class_name}: {display_name}"
NestedLines ==
    <<NestedHeader>>
    \o [k \in DOMAIN nested_classes |->
            Ln("   * {}: {}", 0, nested_classes[k][2], nested_classes[k][1])]

\* faulty variant: the section is left out when there is nothing to list
NestedSkippedWhenEmpty ==
    Emit("nested", IF nested_classes = <<>> THEN <<>> ELSE NestedLines, "methods")

PrintNested == Emit("nested", NestedLines, "methods")

MethodsHeader == Fixed("\n[KEY TEST METHODS] (sample):")

\* test_methods[:10]
SampleMethods == Slice(test_methods, 10)

\* faulty variant: >= instead of >
MoreLinesFromTen ==
    IF Len(test_methods) >= 10
    THEN <<Ln("   ... and {} more", Len(test_methods) - 10, <<>>, <<>>)>>
    ELSE <<>>

\* if len(test_methods) > 10: "   ... and {len(test_methods) - 10} more"
MoreLines ==
    IF Len(test_methods) > 10
    THEN <<Ln("   ... and {} more", Len(test_methods) - 10, <<>>, <<>>)>>
    ELSE <<>>

MethodsLines ==
    <<MethodsHeader>>
    \o [k \in DOMAIN SampleMethods |-> Ln("   * {}", 0, SampleMethods[k], <<>>)]
    \o MoreLines

PrintMethods == Emit("methods", MethodsLines, "helpers")

HelpersHeader == Fixed("\n[HELPER METHODS]:")

\* 'test' in h.lower() or 'create' in h.lower() or 'mock' in h.lower()
IsRelevant(h) ==
    \/ Contains(<<"t", "e", "s", "t">>, LowerStr(h))
    \/ Contains(<<"c", "r", "e", "a", "t", "e">>, LowerStr(h))
    \/ Contains(<<"m", "o", "c", "k">>, LowerStr(h))

\* faulty variant: the limit of 5 is taken before the filter
HelpersLimitedFirst == SelectSeq(Slice(helper_methods, 5), IsRelevant)

relevant_helpers == SelectSeq(helper_methods, IsRelevant)

\* relevant_helpers[:5]
ShownHelpers == Slice(relevant_helpers, 5)

HelpersLines ==
    <<HelpersHeader>>
    \o [k \in DOMAIN ShownHelpers |-> Ln("   * {}", 0, ShownHelpers[k], <<>>)]

PrintHelpers == Emit("helpers", HelpersLines, "categories")

CategoriesHeader == Fixed("\n[TEST CATEGORIES COVERED]:")

categories ==
    <<"Constructor and Configuration",
      "Empty and Null Input Handling",
      "Exact Duplicate Detection",
      "Metadata Duplicate Detection",
      "Size-based Duplicate Detection",
      "Concurrent Processing",
      "Deduplication and Priority",
      "Statistics Generation",
      "Resource Management",
      "Edge Cases and Error Handling",
      "Performance Testing">>

\* "   + {category}"
PlusLine(item) == Fixed("   + " \o item)

CategoriesLines ==
    <<CategoriesHeader>> \o [k \in DOMAIN categories |-> PlusLine(categories[k])]

PrintCategories == Emit("categories", CategoriesLines, "features")

FeaturesHeader == Fixed("\n[CONCURRENCY FEATURES TESTED]:")

features ==
    <<"Virtual Thread Execution",
      "Async Operation Handling",
      "Multiple Concurrent Finders",
      "Exception Propagation",
      "Resource Cleanup",
      "Thread Safety">>

FeaturesLines ==
    <<FeaturesHeader>> \o [k \in DOMAIN features |-> PlusLine(features[k])]

PrintFeatures == Emit("features", FeaturesLines, "performance")

PerformanceHeader == Fixed("\n[PERFORMANCE CHARACTERISTICS]:")

\* faulty variant: the last indicator follows the extracted count
IndicatorsFromCounts ==
    <<Fixed("   * Large dataset testing: YES"),
      Fixed("   * Memory efficiency testing: YES"),
      IF concurrent_patterns > 0
      THEN Fixed("   * Concurrent processing validation: YES")
      ELSE Fixed("   * Concurrent processing validation: NO")>>

PerformanceIndicators ==
    <<Fixed("   * Large dataset testing: YES"),
      Fixed("   * Memory efficiency testing: YES"),
      Fixed("   * Concurrent processing validation: YES")>>

PerformanceLines ==
    <<PerformanceHeader,
      Ln("   * Timeout-constrained tests: {}", timeouts, <<>>, <<>>)>>
    \o PerformanceIndicators

PrintPerformance == Emit("performance", PerformanceLines, "summary")

SummaryHeader == Fixed("\n[SUMMARY]:")

SummaryLines ==
    <<SummaryHeader,
      Fixed("   The test suite provides comprehensive coverage of the"),
      Ln("   ConcurrentDuplicateFinder class with {} test methods",
         Len(test_methods), <<>>, <<>>),
      Ln("   organized into {} logical test groupings.", Len(nested_classes), <<>>, <<>>),
      Fixed("   It includes concurrency testing, performance validation,"),
      Fixed("   error handling, and edge case coverage."),
      Rule>>

PrintSummary == Emit("summary", SummaryLines, "done")

(***************************************************************************)
(* Specifications: one per family of file bodies                           *)
(***************************************************************************)
InitOf(pr) ==
    /\ profile = pr
    /\ fs_kind \in {"missing", "file", "directory"}
    /\ fs_body \in (IF fs_kind = "file" THEN Bodies(pr) ELSE {<<>>})
    /\ pc = "start"
    /\ content = <<>>
    /\ test_methods = <<>>
    /\ nested_classes = <<>>
    /\ helper_methods = <<>>
    /\ imports = <<>>
    /\ assertions = -1
    /\ timeouts = -1
    /\ concurrent_patterns = -1
    /\ mockito_usage = -1
    /\ output = <<>>

Init == InitOf("mixed")

Next ==
    \/ NotFound
    \/ Found
    \/ ReadFile
    \/ OpenRaises
    \/ Extract
    \/ PrintBanner
    \/ PrintStructure
    \/ PrintCoverage
    \/ PrintNested
    \/ PrintMethods
    \/ PrintHelpers
    \/ PrintCategories
    \/ PrintFeatures
    \/ PrintPerformance
    \/ PrintSummary

Spec == Init /\ [][Next]_vars

SpecMethods == InitOf("methods") /\ [][Next]_vars

SpecHelpers == InitOf("helpers") /\ [][Next]_vars

SpecNested == InitOf("nested") /\ [][Next]_vars

SpecConcurrency == InitOf("concurrency") /\ [][Next]_vars

SpecPlain == InitOf("plain") /\ [][Next]_vars

(***************************************************************************)
(* Reading the report                                                      *)
(***************************************************************************)
Printed(l) == \E k \in DOMAIN output : output[k] = l

\* the line that opens each part of the report, in the order of the source
SectionMarks ==
    <<BannerTitle, StructureHeader, CoverageHeader, NestedHeader, MethodsHeader,
      HelpersHeader, CategoriesHeader, FeaturesHeader, PerformanceHeader, SummaryHeader>>

IsMark(l) == \E k \in DOMAIN SectionMarks : SectionMarks[k] = l

MarksPrinted == SelectSeq(output, IsMark)

IsPrefix(s, t) == Len(s) <= Len(t) /\ SubSeq(t, 1, Len(s)) = s

\* the lines printed after header h and before the next header
SectionOf(h) ==
    LET a == CHOOSE k \in DOMAIN output : output[k] = h
        later == {k \in (a + 1)..Len(output) : IsMark(output[k])}
        b == IF later = {} THEN Len(output) + 1 ELSE SetMin(later)
    IN  SubSeq(output, a + 1, b - 1)

Extracted == fs_kind = "file" /\ pc \notin {"start", "open", "extract", "raised"}

(***************************************************************************)
(* C1: when the file is missing the run prints the one "not found"         *)
(* message and nothing else, binds none of the extraction results, and     *)
(* returns: it never reaches the read, the recognizers or the report, and  *)
(* it does not raise.                                                      *)
(***************************************************************************)
C1_MissingFile ==
    fs_kind = "missing" =>
        /\ pc \in {"start", "done"}
        /\ pc = "done" => output = <<NotFoundLine>>
        /\ \A k \in DOMAIN output : ~IsMark(output[k]) /\ output[k] # Rule
        /\ content = <<>>
        /\ test_methods = <<>> /\ nested_classes = <<>>
        /\ helper_methods = <<>> /\ imports = <<>>
        /\ assertions = -1 /\ timeouts = -1
        /\ concurrent_patterns = -1 /\ mockito_usage = -1

C1_Witness == fs_kind = "missing" /\ pc = "done" /\ Len(output) = 1

(***************************************************************************)
(* C2: the Key Test Methods section holds the first min(n, 10) recognized  *)
(* names in recognized order, then one "... and n - 10 more" line exactly  *)
(* when n > 10, where n is the number of recognized test methods.          *)
(***************************************************************************)
C2_SampleLimit ==
    Printed(MethodsHeader) =>
        LET sec == SectionOf(MethodsHeader)
            n == Len(test_methods)
            shown == IF n < 10 THEN n ELSE 10
        IN  /\ Len(sec) = shown + (IF n > 10 THEN 1 ELSE 0)
            /\ \A k \in 1..shown : sec[k] = Ln("   * {}", 0, test_methods[k], <<>>)
            /\ n > 10 => sec[shown + 1] = Ln("   ... and {} more", n - 10, <<>>, <<>>)

C2_Witness ==
    /\ Printed(MethodsHeader)
    /\ Len(test_methods) = 12
    /\ test_methods[1] # test_methods[2]
    /\ Len(SectionOf(MethodsHeader)) = 11

\* the positions the matches of a findall scan cover
RECURSIVE Covered(_, _, _, _)
Covered(x, rs, hits, p) ==
    LET ahead == {q \in hits : q >= p}
    IN  IF ahead = {}
        THEN {}
        ELSE LET q == SetMin(ahead)
                 m == MatchAt(x, rs, q, NoCaps)
             IN  (q..(m.end - 1)) \cup Covered(x, rs, hits, m.end)

\* the text with every match of the pattern deleted
Without(rs, txt, fl) ==
    LET x == Subject(txt, fl)
        hits == {q \in 1..Len(txt) : MatchAt(x, rs, q, NoCaps).ok}
        gone == Covered(x, rs, hits, 1)
        kept == (1..Len(txt)) \ gone
    IN  [k \in 1..Cardinality(kept) |->
            txt[CHOOSE p \in kept : Cardinality({q \in kept : q < p}) = k - 1]]

(***************************************************************************)
(* C3: deleting every import statement from the text leaves every field   *)
(* other than the imports as it was: test methods, nested groups, helper   *)
(* names, assertion count, timeout count, concurrency-pattern count and    *)
(* the mocking flag.                                                       *)
(***************************************************************************)
C3_ImportsIndependent ==
    pc = "banner" =>
        LET stripped == Without(ImportPattern, content, PlainFlags)
        IN  /\ FindTestMethods(stripped) = test_methods
            /\ FindNestedClasses(stripped) = nested_classes
            /\ FindHelperMethods(stripped) = helper_methods
            /\ CountAssertions(stripped) = assertions
            /\ CountTimeouts(stripped) = timeouts
            /\ CountConcurrentPatterns(stripped) = concurrent_patterns
            /\ (CountMockitoUsage(stripped) > 0) = (mockito_usage > 0)

(***************************************************************************)
(* C4: the section headers are printed in the one fixed order, each once:  *)
(* at every moment the headers printed so far are a prefix of the fixed    *)
(* list, and a run that read the file ends with all ten, also when the     *)
(* lists a section shows are empty.                                        *)
(***************************************************************************)
C4_SectionOrder ==
    /\ IsPrefix(MarksPrinted, SectionMarks)
    /\ (pc = "done" /\ fs_kind = "file") => MarksPrinted = SectionMarks

C4_Witness ==
    /\ pc = "done" /\ fs_kind = "file"
    /\ nested_classes = <<>> /\ test_methods = <<>> /\ relevant_helpers = <<>>
    /\ Len(imports) > 0

AnchorFree(txt) ==
    /\ ~Contains(<<"@", "T", "e", "s", "t">>, txt)
    /\ ~Contains(<<"@", "N", "e", "s", "t", "e", "d">>, txt)
    /\ ~Contains(<<"p", "r", "i", "v", "a", "t", "e">>, txt)
    /\ ~Contains(<<"i", "m", "p", "o", "r", "t">>, txt)
    /\ ~Contains(<<"a", "s", "s", "e", "r", "t">>, txt)
    /\ ~Contains(<<"@", "T", "i", "m", "e", "o", "u", "t">>, txt)
    /\ ~Contains(<<"@", "E", "x", "t", "e", "n", "d", "W", "i", "t", "h", "(",
                   "M", "o", "c", "k", "i", "t", "o">>, txt)
    /\ ~Contains(<<"c", "o", "m", "p", "l", "e", "t", "a", "b", "l", "e">>, LowerStr(txt))
    /\ ~Contains(<<"e", "x", "e", "c", "u", "t", "o", "r", "s">>, LowerStr(txt))
    /\ ~Contains(<<"c", "o", "u", "n", "t", "d", "o", "w", "n">>, LowerStr(txt))
    /\ ~Contains(<<"v", "i", "r", "t", "u", "a", "l">>, LowerStr(txt))

(***************************************************************************)
(* C5: a text with no recognizable construct (none of the anchors the      *)
(* recognizers start from occurs in it) yields four empty lists, three     *)
(* zero counts and no mocking, the run does not raise, and the coverage    *)
(* section shows 0, 0, 0 and "No".                                         *)
(***************************************************************************)
C5_NoConstructs ==
    (Extracted /\ AnchorFree(content)) =>
        /\ test_methods = <<>> /\ nested_classes = <<>>
        /\ helper_methods = <<>> /\ imports = <<>>
        /\ assertions = 0 /\ timeouts = 0
        /\ concurrent_patterns = 0 /\ mockito_usage = 0
        /\ Printed(CoverageHeader) =>
              SectionOf(CoverageHeader) =
                  <<Ln("   * Assertion statements: {}", 0, <<>>, <<>>),
                    Ln("   * Timeout constraints: {}", 0, <<>>, <<>>),
                    Ln("   * Concurrency patterns: {}", 0, <<>>, <<>>),
                    Ln("   * Mockito integration: {}", 0, <<"N", "o">>, <<>>)>>

C5_Witness ==
    /\ pc = "done" /\ fs_kind = "file"
    /\ AnchorFree(content)
    /\ "NearMiss" \in Range(fs_body) /\ "NearMock" \in Range(fs_body)

Mentions(word, h) ==
    \E a \in 1..Len(h) : \E b \in a..Len(h) : LowerStr(SubSeq(h, a, b)) = word

MentionsKeyword(h) ==
    \/ Mentions(<<"t", "e", "s", "t">>, h)
    \/ Mentions(<<"c", "r", "e", "a", "t", "e">>, h)
    \/ Mentions(<<"m", "o", "c", "k">>, h)

(***************************************************************************)
(* C6: the Helper Methods section holds the first min(k, 5) of the helper  *)
(* names that mention "test", "create" or "mock" in any letter case, in    *)
(* recognized order, k being how many helper names mention one; the        *)
(* filter comes before the limit.                                          *)
(***************************************************************************)
C6_HelperFilter ==
    Printed(HelpersHeader) =>
        LET sec == SectionOf(HelpersHeader)
            want == SelectSeq(helper_methods, MentionsKeyword)
            k == Len(want)
        IN  /\ Len(sec) = (IF k < 5 THEN k ELSE 5)
            /\ \A j \in 1..Len(sec) : sec[j] = Ln("   * {}", 0, want[j], <<>>)

C6_Witness ==
    /\ Printed(HelpersHeader)
    /\ Len(SelectSeq(helper_methods, MentionsKeyword)) > 5
    /\ Len(helper_methods) > Len(SelectSeq(helper_methods, MentionsKeyword))
    /\ Len(SectionOf(HelpersHeader)) = 5

\* the test method a fragment declares, <<>> when it declares none
DeclaredTest(c) ==
    CASE c = "PublicTestA" -> <<"f", "i", "n", "d", "s", "A">>
      [] c = "PublicTestB" -> <<"f", "i", "n", "d", "s", "B">>
      [] c = "PlainTestC"  -> <<"f", "i", "n", "d", "s", "C">>
      [] OTHER -> <<>>

DeclaresTest(c) == DeclaredTest(c) # <<>>

DeclaredTests(body) ==
    LET decls == SelectSeq(body, DeclaresTest)
    IN  [k \in DOMAIN decls |-> DeclaredTest(decls[k])]

(***************************************************************************)
(* C7: a file with exactly one test-method declaration, the test marker    *)
(* directly followed by the declaration, with or without a visibility      *)
(* modifier, yields exactly that method's name.                            *)
(***************************************************************************)
C7_SingleDeclaration ==
    (Extracted /\ Len(DeclaredTests(fs_body)) = 1) =>
        test_methods = DeclaredTests(fs_body)

\* <<display name, class name>> of the group a fragment declares
DeclaredGroup(c) ==
    CASE c = "NestedG" -> <<<<"E", "d", "g", "e", " ", "c", "a", "s", "e", "s">>, <<"G">>>>
      [] c = "NestedH" -> <<<<"E", "m", "p", "t", "y">>, <<"H">>>>
      [] c = "NestedQ" -> <<<<"T", "h", "e", " ", "\\", "\"", "s", "a", "m", "e", "\\", "\"",
                             " ", "f", "i", "l", "e">>, <<"Q">>>>
      [] OTHER -> <<>>

DeclaresGroup(c) == DeclaredGroup(c) # <<>>

DeclaredGroups(body) ==
    LET decls == SelectSeq(body, DeclaresGroup)
    IN  [k \in DOMAIN decls |-> DeclaredGroup(decls[k])]

DistinctNames(groups) ==
    \A a, b \in DOMAIN groups : a # b => groups[a][1] # groups[b][1]

(***************************************************************************)
(* C8: a file whose N group declarations (group marker, display-name       *)
(* marker with a quoted string, class) carry pairwise distinct strings     *)
(* yields N pairs, the i-th holding the i-th string and class name, and    *)
(* the Nested Test Classes section prints one line per pair in that order. *)
(***************************************************************************)
C8_NestedGroups ==
    (Extracted /\ DistinctNames(DeclaredGroups(fs_body))) =>
        LET groups == DeclaredGroups(fs_body)
        IN  /\ nested_classes = groups
            /\ Printed(NestedHeader) =>
                  SectionOf(NestedHeader) =
                      [k \in DOMAIN groups |->
                          Ln("   * {}: {}", 0, groups[k][2], groups[k][1])]

(***************************************************************************)
(* C9: the Test Categories Covered list, the Concurrency Features Tested   *)
(* list and the three YES indicators are the same in every report,         *)
(* whatever was extracted: they are these 11, 6 and 3 lines.               *)
(***************************************************************************)
C9_StaticParts ==
    (pc = "done" /\ fs_kind = "file") =>
        /\ SectionOf(CategoriesHeader) =
              <<Fixed("   + Constructor and Configuration"),
                Fixed("   + Empty and Null Input Handling"),
                Fixed("   + Exact Duplicate Detection"),
                Fixed("   + Metadata Duplicate Detection"),
                Fixed("   + Size-based Duplicate Detection"),
                Fixed("   + Concurrent Processing"),
                Fixed("   + Deduplication and Priority"),
                Fixed("   + Statistics Generation"),
                Fixed("   + Resource Management"),
                Fixed("   + Edge Cases and Error Handling"),
                Fixed("   + Performance Testing")>>
        /\ SectionOf(FeaturesHeader) =
              <<Fixed("   + Virtual Thread Execution"),
                Fixed("   + Async Operation Handling"),
                Fixed("   + Multiple Concurrent Finders"),
                Fixed("   + Exception Propagation"),
                Fixed("   + Resource Cleanup"),
                Fixed("   + Thread Safety")>>
        /\ Len(SectionOf(PerformanceHeader)) = 4
        /\ SubSeq(SectionOf(PerformanceHeader), 2, 4) =
              <<Fixed("   * Large dataset testing: YES"),
                Fixed("   * Memory efficiency testing: YES"),
                Fixed("   * Concurrent processing validation: YES")>>

C9_Witness ==
    /\ pc = "done" /\ fs_kind = "file"
    /\ Len(test_methods) > 0 /\ Len(nested_classes) > 0 /\ timeouts > 0
    /\ concurrent_patterns > 0 /\ mockito_usage = 0

OccursAt(tok, low, p) ==
    p + Len(tok) - 1 <= Len(low) /\ SubSeq(low, p, p + Len(tok) - 1) = tok

TypeTokens ==
    {<<"c", "o", "m", "p", "l", "e", "t", "a", "b", "l", "e", "f", "u", "t", "u", "r", "e">>,
     <<"e", "x", "e", "c", "u", "t", "o", "r", "s", "e", "r", "v", "i", "c", "e">>,
     <<"c", "o", "u", "n", "t", "d", "o", "w", "n", "l", "a", "t", "c", "h">>}

PhraseAt(low, p) ==
    /\ OccursAt(<<"v", "i", "r", "t", "u", "a", "l">>, low, p)
    /\ \E q \in (p + 7)..Len(low) :
          /\ OccursAt(<<"t", "h", "r", "e", "a", "d">>, low, q)
          /\ \A j \in p..q : low[j] # "\n"

TokenOccurrences(txt) ==
    LET low == LowerStr(txt)
    IN  Cardinality({p \in 1..Len(low) : \E tok \in TypeTokens : OccursAt(tok, low, p)})
        + Cardinality({p \in 1..Len(low) : PhraseAt(low, p)})

(***************************************************************************)
(* C10: the concurrency-pattern count is the number of occurrences in the  *)
(* text of the vocabulary, ignoring case: each CompletableFuture,          *)
(* ExecutorService and CountDownLatch, and each "virtual" with a "thread"  *)
(* after it on its line, counts once, also when several share a line.      *)
(***************************************************************************)
C10_CountsEveryOccurrence ==
    pc = "banner" => concurrent_patterns = TokenOccurrences(content)

====
